---- MODULE Spec2Model ----
(***************************************************************************)
(* sqlite3dump: the dumper of dump.go as a state machine.                  *)
(*                                                                         *)
(* A Go string is a sequence of bytes; here it is a tuple of one-character *)
(* strings, so that strings.HasPrefix, strings.HasSuffix, fmt.Sprintf and  *)
(* ORDER BY "name" are computed on the characters, as the code does.       *)
(* The output stream is the sequence of the payloads of the out.Write      *)
(* calls that succeeded.                                                   *)
(***************************************************************************)
EXTENDS Naturals, Sequences, FiniteSets

VARIABLES
    master,        \* the rows of "sqlite_master", in the order the engine returns them
    s3d,           \* the sqlite3dumper struct
    pc,            \* position of the call in dump / dumpDB
    src,           \* the database of the call: "none", "db" (open) or "missing"
    tableSchemas,  \* local of dumpDB
    otherSchemas,  \* local of dumpDB
    i,             \* index of the range loop the call is in
    out,           \* payloads the output stream accepted, in order
    nwrites,       \* number of Write calls made on the output stream
    wfail,         \* ordinal of the first Write call that failed, 0 if none
    wr,            \* the io.Writer: "ok", "flaky" (may fail) or "broken" (fails)
    err,           \* the error the call returned
    prev           \* the previous completed call on the same handle, or NoRun

vars == <<master, s3d, pc, src, tableSchemas, otherSchemas, i, out, nwrites,
          wfail, wr, err, prev>>

-----------------------------------------------------------------------------
(* Bounds of the model. *)

MaxTables == 2
MaxOthers == 2
MaxTablesW == 1
MaxOthersW == 1

-----------------------------------------------------------------------------
(* String literals of dump.go. *)

BEGIN_TRANSACTION == <<"B", "E", "G", "I", "N", " ", "T", "R", "A", "N", "S", "A", "C", "T", "I", "O", "N", ";", "\n">>
COMMIT == <<"C", "O", "M", "M", "I", "T", ";", "\n">>
DELETE_FROM_sqlite_sequence == <<"D", "E", "L", "E", "T", "E", " ", "F", "R", "O", "M", " ", "\"", "s", "q", "l", "i", "t", "e", "_", "s", "e", "q", "u", "e", "n", "c", "e", "\"", ";", "\n">>
ANALYZE_sqlite_master == <<"A", "N", "A", "L", "Y", "Z", "E", " ", "\"", "s", "q", "l", "i", "t", "e", "_", "m", "a", "s", "t", "e", "r", "\"", ";", "\n">>
DROP_INDEX_IF_EXISTS == <<"D", "R", "O", "P", " ", "I", "N", "D", "E", "X", " ", "I", "F", " ", "E", "X", "I", "S", "T", "S", " ">>
DROP_TABLE_IF_EXISTS == <<"D", "R", "O", "P", " ", "T", "A", "B", "L", "E", " ", "I", "F", " ", "E", "X", "I", "S", "T", "S", " ">>
SemiNl == <<";", "\n">>
sqlite_ == <<"s", "q", "l", "i", "t", "e", "_">>
sqlite_sequence == <<"s", "q", "l", "i", "t", "e", "_", "s", "e", "q", "u", "e", "n", "c", "e">>
sqlite3_stat1 == <<"s", "q", "l", "i", "t", "e", "3", "_", "s", "t", "a", "t", "1">>
_segments == <<"_", "s", "e", "g", "m", "e", "n", "t", "s">>
_segdir == <<"_", "s", "e", "g", "d", "i", "r">>
_stat == <<"_", "s", "t", "a", "t">>
_idx == <<"_", "i", "d", "x">>
_docsize == <<"_", "d", "o", "c", "s", "i", "z", "e">>
_config == <<"_", "c", "o", "n", "f", "i", "g">>
_data == <<"_", "d", "a", "t", "a">>
_content == <<"_", "c", "o", "n", "t", "e", "n", "t">>

-----------------------------------------------------------------------------
(* strings and fmt. *)

\* strings.HasPrefix(s, prefix)
HasPrefix(s, prefix) ==
    /\ Len(s) >= Len(prefix)
    /\ SubSeq(s, 1, Len(prefix)) = prefix

\* strings.HasSuffix(s, suffix)
HasSuffix(s, suffix) ==
    /\ Len(s) >= Len(suffix)
    /\ SubSeq(s, Len(s) - Len(suffix) + 1, Len(s)) = suffix

\* fmt.Sprintf("%s;\n", sql)
SprintfStmt(sql) == sql \o SemiNl

\* The characters that occur in the names of the model, in ascending byte order
\* (0x20, 0x22, '1', '3', '_', 'a'..'z').
Alphabet == <<" ", "\"", "1", "3", "_", "a", "b", "c", "d", "e", "f", "g", "h", "i", "j", "k", "l", "m", "n", "o", "p", "q", "r", "s", "t", "u", "v", "w", "x", "y", "z">>

Code(c) == CHOOSE k \in 1..Len(Alphabet) : Alphabet[k] = c

\* a < b under the engine's BINARY collation (byte-wise, a proper prefix first)
RECURSIVE Less(_, _)
Less(a, b) ==
    IF b = <<>> THEN FALSE
    ELSE IF a = <<>> THEN TRUE
    ELSE IF Head(a) = Head(b) THEN Less(Tail(a), Tail(b))
    ELSE Code(Head(a)) < Code(Head(b))

-----------------------------------------------------------------------------
(* The database: rows of sqlite_master. SQLNull marks a NULL "sql" column,  *)
(* Rows is the table's data (never read by the dumper).                    *)

Ident(s) == <<"\"">> \o s \o <<"\"">>

Table(name, sql, rows) ==
    [Name |-> name, Type |-> "table", SQLNull |-> FALSE, SQL |-> sql, Rows |-> rows]

Other(name, type, sql) ==
    [Name |-> name, Type |-> type, SQLNull |-> FALSE, SQL |-> sql, Rows |-> {}]

CREATE_TABLE == <<"C", "R", "E", "A", "T", "E", " ", "T", "A", "B", "L", "E", " ">>
CREATE_INDEX == <<"C", "R", "E", "A", "T", "E", " ", "I", "N", "D", "E", "X", " ">>
CREATE_TRIGGER == <<"C", "R", "E", "A", "T", "E", " ", "T", "R", "I", "G", "G", "E", "R", " ">>
CREATE_VIEW == <<"C", "R", "E", "A", "T", "E", " ", "V", "I", "E", "W", " ">>

PlainTable(name, rows) == Table(name, CREATE_TABLE \o Ident(name) \o <<"(", "c", ")">>, rows)

FtsSuffixes == {_segments, _segdir, _stat, _idx, _docsize, _config, _data, _content}

\* The CREATE TABLE statements the database may have run, in creation (rowid)
\* order, each with the rows it left in sqlite_master: the UNIQUE column of t
\* brings an automatic index, whose "sql" is NULL.
TablePool == <<
    <<Table(<<"t">>, CREATE_TABLE \o <<"t", "(", "c", " ", "U", "N", "I", "Q", "U", "E", ")">>, {<<"1", "a">>}),
      [Name |-> <<"s", "q", "l", "i", "t", "e", "_", "a", "u", "t", "o", "i", "n", "d", "e", "x", "_", "t", "_", "1">>,
       Type |-> "index", SQLNull |-> TRUE, SQL |-> <<>>, Rows |-> {}]>>,
    <<PlainTable(<<"a", "\"", "b">>, {})>>,
    <<PlainTable(sqlite_sequence, {})>>,
    <<PlainTable(sqlite3_stat1, {})>>,
    <<PlainTable(<<"s", "q", "l", "i", "t", "e", "_", "s", "t", "a", "t", "1">>, {})>>,
    <<PlainTable(<<"f">> \o _segments, {})>>,
    <<PlainTable(<<"f">> \o _segdir, {})>>,
    <<PlainTable(<<"f">> \o _stat, {})>>,
    <<PlainTable(<<"f">> \o _idx, {})>>,
    <<PlainTable(<<"f">> \o _docsize, {})>>,
    <<PlainTable(<<"f">> \o _config, {})>>,
    <<PlainTable(<<"f">> \o _data, {})>>,
    <<PlainTable(<<"f">> \o _content, {})>> >>

\* the pool's auxiliary tables of a full-text index
FtsInPool == {k \in 1..Len(TablePool) : \E suffix \in FtsSuffixes :
                  Len(TablePool[k][1].Name) >= Len(suffix)
                  /\ SubSeq(TablePool[k][1].Name,
                            Len(TablePool[k][1].Name) - Len(suffix) + 1,
                            Len(TablePool[k][1].Name)) = suffix}

\* Indexes, triggers and views the catalog may hold.
OtherPool == {
    Other(<<"i", " ", "j">>, "index", CREATE_INDEX \o Ident(<<"i", " ", "j">>) \o <<" ", "O", "N", " ", "t", "(", "c", ")">>),
    Other(<<"t", "r">>, "trigger", CREATE_TRIGGER \o <<"t", "r">> \o <<" ", "A", "F", "T", "E", "R", " ", "I", "N", "S", "E", "R", "T", " ", "O", "N", " ", "t", " ", "B", "E", "G", "I", "N", " ", "S", "E", "L", "E", "C", "T", " ", "1", ";", " ", "E", "N", "D">>),
    Other(<<"v">>, "view", CREATE_VIEW \o <<"v">> \o <<" ", "A", "S", " ", "S", "E", "L", "E", "C", "T", " ", "1">>) }

\* The catalog rows of the pool's tables numbered in S, in pool order.
RECURSIVE PoolSeq(_, _)
PoolSeq(S, k) ==
    IF k > Len(TablePool) THEN <<>>
    ELSE (IF k \in S THEN TablePool[k] ELSE <<>>) \o PoolSeq(S, k + 1)

\* Sequences without repetition of at most n elements of S.
NoRepeat(a) == \A j \in 1..Len(a), k \in 1..Len(a) : j < k => a[j] # a[k]

RECURSIVE Arrangements(_, _)
Arrangements(S, n) ==
    IF n = 0 THEN {<<>>}
    ELSE LET A == Arrangements(S, n - 1)
         IN  A \cup {s \in {Append(a, x) : a \in A, x \in S} : NoRepeat(s)}

\* The catalogs of at most nt tables, at most one of them the auxiliary table of
\* a full-text index, followed by at most no indexes, triggers and views in any
\* order.
Masters(nt, no) ==
    {PoolSeq(S, 1) \o O :
        S \in {X \in SUBSET (1..Len(TablePool)) :
                 Cardinality(X) <= nt /\ Cardinality(X \cap FtsInPool) <= 1},
        O \in Arrangements(OtherPool, no)}

-----------------------------------------------------------------------------
(* The catalog queries of dumpDB, as getSchemas returns their rows. *)

schema(row) == [Name |-> row.Name, Type |-> row.Type, SQL |-> row.SQL]

RECURSIVE Where(_, _)
Where(rows, types) ==
    IF rows = <<>> THEN <<>>
    ELSE (IF ~Head(rows).SQLNull /\ Head(rows).Type \in types
          THEN <<schema(Head(rows))>> ELSE <<>>) \o Where(Tail(rows), types)

\* insertion of s into a sequence ordered by Name
RECURSIVE Insert(_, _)
Insert(s, sorted) ==
    IF sorted = <<>> THEN <<s>>
    ELSE IF Less(s.Name, Head(sorted).Name) THEN <<s>> \o sorted
    ELSE <<Head(sorted)>> \o Insert(s, Tail(sorted))

RECURSIVE OrderByName(_)
OrderByName(rows) ==
    IF rows = <<>> THEN <<>> ELSE Insert(Head(rows), OrderByName(Tail(rows)))

\* SELECT ... WHERE "sql" NOT NULL AND "type" == 'table' ORDER BY "name"
SelectTables(m) == OrderByName(Where(m, {"table"}))

\* SELECT ... WHERE "sql" NOT NULL AND "type" IN ('index', 'trigger', 'view')
SelectOthers(m) == Where(m, {"index", "trigger", "view"})

-----------------------------------------------------------------------------
(* Options and the dumper. *)

Options == {"WithMigration", "WithDropIfExists", "WithoutTransaction"}

ApplyOption(d, o) ==
    CASE o = "WithMigration" -> [d EXCEPT !.migration = TRUE]
      [] o = "WithDropIfExists" -> [d EXCEPT !.dropIfExists = TRUE]
      [] o = "WithoutTransaction" -> [d EXCEPT !.wrapWithTransaction = FALSE]

RECURSIVE ApplyAll(_, _)
ApplyAll(d, opts) ==
    IF opts = {} THEN d
    ELSE LET o == CHOOSE x \in opts : TRUE
         IN  ApplyAll(ApplyOption(d, o), opts \ {o})

newSqlite3Dumper(opts) ==
    ApplyAll([migration |-> FALSE, dropIfExists |-> FALSE,
              wrapWithTransaction |-> TRUE], opts)

NoRun == [run |-> FALSE]

-----------------------------------------------------------------------------
(* The output stream. *)

\* what a Write call on the stream may return: TRUE for a nil error
Outcomes ==
    CASE wr = "ok" -> {TRUE}
      [] wr = "flaky" -> {TRUE, FALSE}
      [] wr = "broken" -> {FALSE}

\* out.Write(b) returning a nil error (ok) or an error
Write(b, ok) ==
    /\ nwrites' = nwrites + 1
    /\ out' = IF ok THEN Append(out, b) ELSE out
    /\ wfail' = IF ~ok /\ wfail = 0 THEN nwrites + 1 ELSE wfail
    /\ wr' = IF ok THEN wr ELSE "broken"

NoWrite == UNCHANGED <<out, nwrites, wfail, wr>>

-----------------------------------------------------------------------------
(* Positions of dumpDB. A phase with nothing to do is passed over.         *)

RECURSIVE Enter(_, _, _, _)
Enter(phase, d, nT, nO) ==
    CASE phase = "drop" ->
            IF d.dropIfExists /\ nO + nT > 0 THEN <<"drop", 1>>
            ELSE Enter("table", d, nT, nO)
      [] phase = "table" ->
            IF nT > 0 THEN <<"table", 1>> ELSE Enter("other", d, nT, nO)
      [] phase = "other" ->
            IF nO > 0 THEN <<"other", 1>> ELSE Enter("commit", d, nT, nO)
      [] phase = "commit" ->
            IF d.wrapWithTransaction THEN <<"commit", 0>> ELSE <<"done", 0>>

\* the position after iteration k of a range loop over n elements
Advance(phase, nextPhase, k, n) ==
    IF k < n THEN <<phase, k + 1>>
    ELSE Enter(nextPhase, s3d, Len(tableSchemas), Len(otherSchemas))

\* a mutation of EnterDumpDB: the BEGIN TRANSACTION write is left out
EnterDumpDBNoBegin(d) == "getTables"

EnterDumpDB(d) == IF d.wrapWithTransaction THEN "begin" ELSE "getTables"

Locals == <<tableSchemas, otherSchemas, i>>

Goto(pos) == pc' = pos[1] /\ i' = pos[2]

-----------------------------------------------------------------------------
(* Entry points. *)

\* a mutation of statErr: the error of os.Stat is lost (a shadowed err)
statErrShadowed(stat) == "nil"

\* the named result err after `_, err = os.Stat(dbName)` found no file
statErr(stat) == IF stat = "IsNotExist" THEN "ErrNotExist" ELSE "nil"

\* Dump(dbName, out, opts...) and dump: os.Stat, sql.Open, then dumpDB
Dump(opts, stat, open) ==
    /\ pc = "idle"
    /\ s3d' = newSqlite3Dumper(opts)
    /\ IF stat = "IsNotExist"
       THEN /\ err' = statErr(stat)
            /\ pc' = "done"
            /\ src' = "missing"
       ELSE /\ src' = "db"
            /\ IF open = "error"
               THEN err' = "ErrOpen" /\ pc' = "done"
               ELSE err' = "nil" /\ pc' = EnterDumpDB(s3d')
    /\ NoWrite
    /\ UNCHANGED <<master, Locals, prev>>

\* DumpDB(db, out, opts...)
DumpDB(opts) ==
    /\ pc = "idle"
    /\ s3d' = newSqlite3Dumper(opts)
    /\ src' = "db"
    /\ pc' = EnterDumpDB(s3d')
    /\ NoWrite
    /\ UNCHANGED <<master, Locals, err, prev>>

\* DumpMigration(db, out)
DumpMigration ==
    /\ pc = "idle"
    /\ s3d' = newSqlite3Dumper({"WithMigration"})
    /\ src' = "db"
    /\ pc' = EnterDumpDB(s3d')
    /\ NoWrite
    /\ UNCHANGED <<master, Locals, err, prev>>

-----------------------------------------------------------------------------
(* dumpDB. *)

\* if s3d.wrapWithTransaction { out.Write("BEGIN TRANSACTION;\n") }
Begin ==
    /\ pc = "begin"
    /\ \E ok \in Outcomes : Write(BEGIN_TRANSACTION, ok)
    /\ pc' = "getTables"
    /\ UNCHANGED <<master, s3d, src, Locals, err, prev>>

\* tableSchemas, err := s3d.getSchemas(db, ...)
GetTableSchemas ==
    /\ pc = "getTables"
    /\ \E ok \in BOOLEAN :
          IF ok
          THEN /\ tableSchemas' = SelectTables(master)
               /\ pc' = "getOthers"
               /\ err' = err
          ELSE /\ tableSchemas' = tableSchemas
               /\ pc' = "done"
               /\ err' = "ErrQuery"
    /\ NoWrite
    /\ UNCHANGED <<master, s3d, src, otherSchemas, i, prev>>

\* otherSchemas, err := s3d.getSchemas(db, ...), and the way to the first phase
GetOtherSchemas ==
    /\ pc = "getOthers"
    /\ \E ok \in BOOLEAN :
          IF ok
          THEN /\ otherSchemas' = SelectOthers(master)
               /\ Goto(Enter("drop", s3d, Len(tableSchemas), Len(otherSchemas')))
               /\ err' = err
          ELSE /\ otherSchemas' = otherSchemas
               /\ pc' = "done"
               /\ i' = i
               /\ err' = "ErrQuery"
    /\ NoWrite
    /\ UNCHANGED <<master, s3d, src, tableSchemas, prev>>

\* a mutation of allSchemas: append(tableSchemas, otherSchemas...)
allSchemasTablesFirst == tableSchemas \o otherSchemas

\* allSchemas := append(otherSchemas, tableSchemas...)
allSchemas == otherSchemas \o tableSchemas

\* a mutation of dropStatement: system tables are not skipped
dropStatementNoSkip(sch) ==
    CASE sch.Type = "index" -> <<DROP_INDEX_IF_EXISTS \o sch.Name \o SemiNl>>
      [] sch.Type = "table" -> <<DROP_TABLE_IF_EXISTS \o sch.Name \o SemiNl>>
      [] OTHER -> <<>>

\* the statement writeDropStatements builds for one schema (none: continue)
dropStatement(sch) ==
    CASE sch.Type = "index" -> <<DROP_INDEX_IF_EXISTS \o sch.Name \o SemiNl>>
      [] sch.Type = "table" ->
            IF HasPrefix(sch.Name, sqlite_) THEN <<>>
            ELSE <<DROP_TABLE_IF_EXISTS \o sch.Name \o SemiNl>>
      [] OTHER -> <<>>

\* one iteration of the loop of writeDropStatements, called from dumpDB
WriteDropStatements ==
    /\ pc = "drop"
    /\ LET st == dropStatement(allSchemas[i])
       IN  IF st = <<>>
           THEN /\ NoWrite
                /\ Goto(Advance("drop", "table", i, Len(allSchemas)))
                /\ err' = err
           ELSE \E ok \in Outcomes :
                  /\ Write(st[1], ok)
                  /\ IF ok
                     THEN /\ Goto(Advance("drop", "table", i, Len(allSchemas)))
                          /\ err' = err
                     ELSE /\ pc' = "done"
                          /\ i' = i
                          /\ err' = "ErrWrite"
    /\ UNCHANGED <<master, s3d, src, tableSchemas, otherSchemas, prev>>

\* a mutation of tableStatement: the test of s3d.migration is the wrong way round
tableStatementInverted(d, sch) ==
    IF sch.Name = sqlite_sequence THEN <<DELETE_FROM_sqlite_sequence>>
    ELSE IF sch.Name = sqlite3_stat1 THEN <<ANALYZE_sqlite_master>>
    ELSE IF HasPrefix(sch.Name, sqlite_) THEN <<>>
    ELSE IF \E suffix \in FtsSuffixes : HasSuffix(sch.Name, suffix) THEN <<>>
    ELSE IF d.migration THEN <<SprintfStmt(sch.SQL)>>
    ELSE <<>>

\* the statement the table loop of dumpDB writes for one schema (none: nothing)
tableStatement(d, sch) ==
    IF sch.Name = sqlite_sequence THEN <<DELETE_FROM_sqlite_sequence>>
    ELSE IF sch.Name = sqlite3_stat1 THEN <<ANALYZE_sqlite_master>>
    ELSE IF HasPrefix(sch.Name, sqlite_) THEN <<>>
    ELSE IF \/ HasSuffix(sch.Name, _segments) \/ HasSuffix(sch.Name, _segdir)
            \/ HasSuffix(sch.Name, _stat) \/ HasSuffix(sch.Name, _idx)
            \/ HasSuffix(sch.Name, _docsize) \/ HasSuffix(sch.Name, _config)
            \/ HasSuffix(sch.Name, _data) \/ HasSuffix(sch.Name, _content)
         THEN <<>>
    ELSE IF ~d.migration THEN <<SprintfStmt(sch.SQL)>>
    ELSE <<>>

\* one iteration of: for _, schema := range tableSchemas
TableLoop ==
    /\ pc = "table"
    /\ LET st == tableStatement(s3d, tableSchemas[i])
       IN  IF st = <<>> THEN NoWrite
           ELSE \E ok \in Outcomes : Write(st[1], ok)
    /\ Goto(Advance("table", "other", i, Len(tableSchemas)))
    /\ UNCHANGED <<master, s3d, src, tableSchemas, otherSchemas, err, prev>>

\* a mutation of otherStatement: schema-only mode leaves the definition out
otherStatementSchemaOnly(d, sch) ==
    IF d.migration THEN <<>> ELSE <<SprintfStmt(sch.SQL)>>

\* the statement the loop over otherSchemas writes for one schema
otherStatement(d, sch) == <<SprintfStmt(sch.SQL)>>

\* one iteration of: for _, schema := range otherSchemas
OtherLoop ==
    /\ pc = "other"
    /\ LET st == otherStatement(s3d, otherSchemas[i])
       IN  IF st = <<>> THEN NoWrite
           ELSE \E ok \in Outcomes : Write(st[1], ok)
    /\ Goto(Advance("other", "commit", i, Len(otherSchemas)))
    /\ UNCHANGED <<master, s3d, src, tableSchemas, otherSchemas, err, prev>>

\* if s3d.wrapWithTransaction { out.Write("COMMIT;\n") }; return
Commit ==
    /\ pc = "commit"
    /\ \E ok \in Outcomes : Write(COMMIT, ok)
    /\ pc' = "done"
    /\ UNCHANGED <<master, s3d, src, Locals, err, prev>>

-----------------------------------------------------------------------------
(* After a dump that returned no error: a second dump of the same database *)
(* into a fresh stream, with the same options but for the migration        *)
(* option, which is the other way round.                                   *)

Redump ==
    /\ pc = "done"
    /\ src = "db"
    /\ err = "nil"
    /\ ~prev.run
    /\ prev' = [run |-> TRUE, s3d |-> s3d, out |-> out, err |-> err, wfail |-> wfail]
    /\ s3d' = [s3d EXCEPT !.migration = ~s3d.migration]
    /\ pc' = EnterDumpDB(s3d')
    /\ tableSchemas' = <<>>
    /\ otherSchemas' = <<>>
    /\ i' = 0
    /\ out' = <<>>
    /\ nwrites' = 0
    /\ wfail' = 0
    /\ wr' = IF wr = "ok" THEN "ok" ELSE "flaky"
    /\ err' = "nil"
    /\ UNCHANGED <<master, src>>

-----------------------------------------------------------------------------

InitCall ==
    /\ s3d = newSqlite3Dumper({})
    /\ pc = "idle"
    /\ src = "none"
    /\ tableSchemas = <<>>
    /\ otherSchemas = <<>>
    /\ i = 0
    /\ out = <<>>
    /\ nwrites = 0
    /\ wfail = 0
    /\ err = "nil"
    /\ prev = NoRun

\* a stream that accepts every write
Init ==
    /\ master \in Masters(MaxTables, MaxOthers)
    /\ wr = "ok"
    /\ InitCall

\* a stream that may fail
InitW ==
    /\ master \in Masters(MaxTablesW, MaxOthersW)
    /\ wr = "flaky"
    /\ InitCall

Next ==
    \/ \E opts \in SUBSET Options, stat \in {"nil", "IsNotExist"}, open \in {"nil", "error"} :
          Dump(opts, stat, open)
    \/ \E opts \in SUBSET Options : DumpDB(opts)
    \/ DumpMigration
    \/ Begin
    \/ GetTableSchemas
    \/ GetOtherSchemas
    \/ WriteDropStatements
    \/ TableLoop
    \/ OtherLoop
    \/ Commit
    \/ Redump

Spec == Init /\ [][Next]_vars

SpecW == InitW /\ [][Next]_vars

-----------------------------------------------------------------------------
(* Vocabulary of the properties. *)

Completed == pc = "done" /\ err = "nil"

\* the catalog entries that have a definition
Objects == {master[k] : k \in {j \in 1..Len(master) : ~master[j].SQLNull}}

TableObjects == {o \in Objects : o.Type = "table"}

OtherObjects == {o \in Objects : o.Type \in {"index", "trigger", "view"}}

\* positions of the payload p in the output
Pos(p) == {k \in 1..Len(out) : out[k] = p}

Count(p) == Cardinality(Pos(p))

\* the object's definition followed by ';' and a newline
CreateStmt(o) == o.SQL \o SemiNl

DropIndexStmt(name) == DROP_INDEX_IF_EXISTS \o name \o SemiNl

DropTableStmt(name) == DROP_TABLE_IF_EXISTS \o name \o SemiNl

\* strings.Replace(s, `"`, `""`, -1)
RECURSIVE DoubleQuotes(_)
DoubleQuotes(s) ==
    IF s = <<>> THEN <<>>
    ELSE (IF Head(s) = "\"" THEN <<"\"", "\"">> ELSE <<Head(s)>>) \o DoubleQuotes(Tail(s))

\* the name as an SQL identifier: embedded double quotes doubled, wrapped in quotes
QuoteIdent(name) == <<"\"">> \o DoubleQuotes(name) \o <<"\"">>

\* the DROP statements that name the object, its name written bare or quoted
DropStmts(o) ==
    {DropIndexStmt(o.Name), DropTableStmt(o.Name),
     DropIndexStmt(QuoteIdent(o.Name)), DropTableStmt(QuoteIdent(o.Name))}

IsDrop(p) == HasPrefix(p, DROP_INDEX_IF_EXISTS) \/ HasPrefix(p, DROP_TABLE_IF_EXISTS)

HasFtsSuffix(name) == \E suffix \in FtsSuffixes : HasSuffix(name, suffix)

\* an ordinary user table: none of the name rules of the table loop applies
Ordinary(o) ==
    /\ o.Type = "table"
    /\ o.Name # sqlite_sequence
    /\ o.Name # sqlite3_stat1
    /\ ~HasPrefix(o.Name, sqlite_)
    /\ ~HasFtsSuffix(o.Name)

-----------------------------------------------------------------------------
\* C1 (as claimed): Dump of a path that does not exist returns a nil error and
\* makes no write, whatever the options.
C1_MissingReturnsNil ==
    (pc = "done" /\ src = "missing") => (err = "nil" /\ nwrites = 0)

\* C1 (amended): Dump of a path that does not exist returns the error of
\* os.Stat (not nil) and makes no write, whatever the options.
C1_MissingReturnsStatError ==
    (pc = "done" /\ src = "missing") =>
        (err = "ErrNotExist" /\ nwrites = 0 /\ out = <<>>)

C1_Witness ==
    /\ pc = "done"
    /\ src = "missing"
    /\ s3d.dropIfExists
    /\ ~s3d.wrapWithTransaction
    /\ master # <<>>

\* C2: once a write to the output stream has failed no further write is
\* attempted, and the dump returns an error that is not nil.
C2_WriteFailureAborts ==
    wfail # 0 => (nwrites = wfail /\ (pc = "done" => err # "nil"))

\* C3: a table whose name ends in a full-text-search auxiliary suffix has no
\* statement in the output, in any configuration.
C3_FtsTablesProduceNothing ==
    \A o \in TableObjects :
        HasFtsSuffix(o.Name) =>
            \A k \in 1..Len(out) : out[k] \notin ({CreateStmt(o)} \cup DropStmts(o))

\* C4: with drop-if-exists, a completed dump holds exactly one DROP INDEX IF
\* EXISTS for every index and exactly one DROP TABLE IF EXISTS for every table
\* without the sqlite_ prefix, each before the object's CREATE statement; no
\* DROP for sqlite_ tables, triggers and views; every DROP of an index is
\* before every DROP of a table.
C4_DropsOncePerObjectIndexesFirst ==
    /\ (Completed /\ s3d.dropIfExists) =>
          \A o \in Objects :
              /\ o.Type = "index" => Count(DropIndexStmt(o.Name)) = 1
              /\ (o.Type = "table" /\ ~HasPrefix(o.Name, sqlite_)) =>
                     Count(DropTableStmt(o.Name)) = 1
              /\ (o.Type \in {"trigger", "view"}
                    \/ (o.Type = "table" /\ HasPrefix(o.Name, sqlite_))) =>
                     \A k \in 1..Len(out) : out[k] \notin DropStmts(o)
    /\ Completed =>
          /\ \A o \in Objects :
                \A j \in 1..Len(out), k \in 1..Len(out) :
                    (out[j] \in DropStmts(o) /\ out[k] = CreateStmt(o)) => j < k
          /\ \A j \in 1..Len(out), k \in 1..Len(out) :
                (HasPrefix(out[j], DROP_INDEX_IF_EXISTS)
                   /\ HasPrefix(out[k], DROP_TABLE_IF_EXISTS)) => j < k

C4_Witness ==
    /\ Completed
    /\ s3d.dropIfExists
    /\ ~s3d.migration
    /\ \E o \in Objects : o.Type = "index"
    /\ \E o \in TableObjects : Ordinary(o) /\ Count(CreateStmt(o)) = 1
    /\ \E o \in TableObjects : HasPrefix(o.Name, sqlite_)

\* C5: not in schema-only mode, a completed dump holds the definition of every
\* ordinary user table, followed by ';' and a newline, exactly once, and before
\* every index, trigger and view definition.
C5_TableCreateOnceBeforeOthers ==
    (Completed /\ ~s3d.migration) =>
        \A t \in TableObjects :
            Ordinary(t) =>
                /\ Count(CreateStmt(t)) = 1
                /\ \A o \in OtherObjects :
                      \A j \in Pos(CreateStmt(t)), k \in Pos(CreateStmt(o)) : j < k

C5_Witness ==
    /\ Completed
    /\ ~s3d.migration
    /\ Cardinality({t \in TableObjects : Ordinary(t)}) = 2
    /\ \E o \in OtherObjects : Count(CreateStmt(o)) = 1

\* C6: with transaction wrapping a dump that completes without error has
\* BEGIN TRANSACTION; exactly once, first, and COMMIT; exactly once, last;
\* without wrapping it has neither; a catalog without objects gives the
\* envelope only.
C6_TransactionEnvelope ==
    /\ (Completed /\ s3d.wrapWithTransaction) =>
          /\ Len(out) >= 2
          /\ out[1] = BEGIN_TRANSACTION
          /\ out[Len(out)] = COMMIT
          /\ Count(BEGIN_TRANSACTION) = 1
          /\ Count(COMMIT) = 1
    /\ (Completed /\ ~s3d.wrapWithTransaction) =>
          (Count(BEGIN_TRANSACTION) = 0 /\ Count(COMMIT) = 0)
    /\ (Completed /\ Objects = {}) =>
          out = IF s3d.wrapWithTransaction THEN <<BEGIN_TRANSACTION, COMMIT>> ELSE <<>>

C6_Witness ==
    /\ Completed
    /\ s3d.wrapWithTransaction
    /\ s3d.dropIfExists
    /\ Len(out) >= 5

\* the output without the CREATE statements of the ordinary tables
WithoutTableCreates(o) ==
    SelectSeq(o, LAMBDA p : ~\E t \in TableObjects : Ordinary(t) /\ p = CreateStmt(t))

\* the definitions of the indexes, triggers and views, in catalog return order
OtherDefinitions ==
    LET others == SelectOthers(master)
    IN  [k \in 1..Len(others) |-> others[k].SQL \o SemiNl]

IsOtherDefinition(p) == \E o \in OtherObjects : p = CreateStmt(o)

C8_SystemTables ==
    Completed =>
        /\ Count(DELETE_FROM_sqlite_sequence) =
              Cardinality({t \in TableObjects : t.Name = sqlite_sequence})
        /\ \A t \in TableObjects :
              HasPrefix(t.Name, sqlite_) =>
                  \A k \in 1..Len(out) : out[k] \notin ({CreateStmt(t)} \cup DropStmts(t))
        /\ \A k \in 1..Len(out) :
              \/ out[k] \in {BEGIN_TRANSACTION, COMMIT, ANALYZE_sqlite_master}
              \/ out[k] = DELETE_FROM_sqlite_sequence
                    /\ \E t \in TableObjects : t.Name = sqlite_sequence
              \/ \E o \in Objects :
                    /\ ~(o.Type = "table" /\ HasPrefix(o.Name, sqlite_))
                    /\ out[k] \in ({CreateStmt(o)} \cup DropStmts(o))

C8_Witness ==
    /\ Completed
    /\ s3d.dropIfExists
    /\ \E t \in TableObjects : t.Name = sqlite_sequence
    /\ \E t \in TableObjects : HasPrefix(t.Name, sqlite_) /\ t.Name # sqlite_sequence

\* C9: every name in a DROP statement of the output is written with its double
\* quotes doubled and wrapped in double quotes.
C9_DropNamesQuoted ==
    \A k \in 1..Len(out) :
        IsDrop(out[k]) =>
            \E o \in Objects :
                out[k] \in {DropIndexStmt(QuoteIdent(o.Name)), DropTableStmt(QuoteIdent(o.Name))}

-----------------------------------------------------------------------------
(* Replay of a statement stream against an empty database of the engine.   *)

\* the objects a CREATE statement of the model can define
Definable ==
    {TablePool[k][1] : k \in 1..Len(TablePool)} \cup OtherPool

\* a name the engine reads as one identifier without quotes
BareIdent(name) == \A k \in 1..Len(name) : name[k] \notin {" ", "\""}

\* the DROP statements by which the engine drops the object
EngineDrops(o) ==
    LET names == {QuoteIdent(o.Name)} \cup (IF BareIdent(o.Name) THEN {o.Name} ELSE {})
    IN  IF o.Type = "index" THEN {DropIndexStmt(n) : n \in names}
        ELSE IF o.Type = "table" THEN {DropTableStmt(n) : n \in names}
        ELSE {}

\* a CREATE makes the object, without rows; a DROP ... IF EXISTS removes it;
\* the dumper writes no statement that makes a row
ReplayStmt(db, p) ==
    IF \E o \in Definable : p = CreateStmt(o)
    THEN db \cup {[o EXCEPT !.Rows = {}] : o \in {x \in Definable : p = CreateStmt(x)}}
    ELSE IF IsDrop(p) THEN {o \in db : p \notin EngineDrops(o)}
    ELSE db

RECURSIVE Replay(_, _)
Replay(db, stmts) ==
    IF stmts = <<>> THEN db ELSE Replay(ReplayStmt(db, Head(stmts)), Tail(stmts))

\* the source's ordinary tables and its indexes, triggers and views
UserObjects == {o \in Objects : o.Type = "table" => Ordinary(o)}

\* C10: replaying the output of a completed full dump against an empty
\* database gives the source's user tables, indexes, triggers and views, and
\* for every table the source's rows.
C10_RoundTrip ==
    (Completed /\ ~s3d.migration) =>
        LET db == Replay({}, out)
        IN  /\ {<<o.Type, o.Name>> : o \in db} = {<<o.Type, o.Name>> : o \in UserObjects}
            /\ \A t \in UserObjects :
                  t.Type = "table" => \E r \in db : r.Name = t.Name /\ r.Rows = t.Rows
====
